---- MODULE Spec2Model ----
(***************************************************************************)
(* Ghost Playwright: the job lifecycle of src/src/interfaces.ts.           *)
(*                                                                         *)
(* The Job Controller (the Hono routes), the background task that Submit   *)
(* hands to executionCtx.waitUntil, and the Job Runner                     *)
(* (executePlaywrightSequence) are modelled as one state machine.  Every   *)
(* await of the code is a step of its job; steps of different jobs and     *)
(* requests interleave freely.  The browser and the two KV namespaces are  *)
(* the environment: each of their calls either returns or throws, and a    *)
(* kv.put that throws leaves the namespace unchanged.  The 24-hour expiry  *)
(* of the stored keys is outside the model: no key expires.  A response is *)
(* a function of the request and of the state the handler reads, so the    *)
(* handlers' responses are operators, and a handler that writes nothing is *)
(* a step that changes nothing.                                            *)
(***************************************************************************)
EXTENDS Naturals, Sequences, FiniteSets, TLC

(* ---- bounds of the model ---- *)
MaxJobs == 2        \* jobs submitted in one behaviour
MaxActions == 2     \* longest action list that is executed
MaxFaults == 2      \* environment calls that throw in one behaviour

(* ---- program constants ---- *)
MinSchemaActions == 1
MaxSchemaActions == 50
MinTimeout == 0
MaxTimeout == 60000
DefaultWaitMs == 1000

Slots == 1..MaxJobs

(* crypto.randomUUID(): the n-th identifier drawn for a job, and the k-th  *)
(* drawn for a screenshot of one job.  Distinct draws give distinct        *)
(* identifiers; an identifier is made of hexadecimal digits and dashes.    *)
(* randomUUID drawing the same identifier every time *)
randomUUIDRepeats(n) == "87ed99b7-f372-1"

randomUUID(n) == "87ed99b7-f372-" \o ToString(n)
randomShotUUID(k) == "edf23531-b0db-" \o ToString(k)

(* String.prototype.startsWith *)
startsWith(s, prefix) ==
    /\ Len(s) >= Len(prefix)
    /\ SubSeq(s, 1, Len(prefix)) = prefix

(* an optional property of a JavaScript object: present, and truthy as a  *)
(* string (non-empty) or as a boolean                                     *)
Has(obj, f) == f \in DOMAIN obj
Truthy(obj, f) == Has(obj, f) /\ obj[f] # ""
TruthyFlag(obj, f) == Has(obj, f) /\ obj[f] = TRUE
(* ... or as a number: 0 is falsy *)
TruthyNum(obj, f) == Has(obj, f) /\ obj[f] # 0
(* action.getByText is a string or an object { text, exact? }: here a      *)
(* record, [string |-> s] for the string and [text |-> s] or               *)
(* [text |-> s, exact |-> b] for the object.  An object is truthy whatever *)
(* it holds, a string when it is not empty.                                *)
TruthyText(action) ==
    /\ Has(action, "getByText")
    /\ Has(action.getByText, "string") => action.getByText.string # ""

(* ---- storage keys ---- *)
jobKey(jobId) == "job:" \o jobId
traceKey(jobId) == "trace:" \o jobId
screenshotKey(jobId, screenshotId) ==
    "screenshot:" \o jobId \o ":" \o screenshotId \o ".png"
(* screenshotPath without the extension the storage key carries *)
screenshotPathNoExt(jobId, screenshotId) ==
    "/api/v1/jobs/" \o jobId \o "/screenshots/" \o screenshotId
screenshotPath(jobId, screenshotId) ==
    "/api/v1/jobs/" \o jobId \o "/screenshots/" \o screenshotId \o ".png"
traceViewerUrl(jobId) ==
    "https://trace.playwright.dev/?trace=https://ghost-playwright.rakhimd.workers.dev/api/v1/jobs/"
        \o jobId \o "/trace"

(* KVNamespace.put / delete on a namespace held as a function of its keys *)
kvPut(kv, key, value) ==
    [k \in DOMAIN kv \cup {key} |-> IF k = key THEN value ELSE kv[k]]
kvDelete(kv, key) == [k \in DOMAIN kv \ {key} |-> kv[k]]
kvList(kv, prefix) == {k \in DOMAIN kv : startsWith(k, prefix)}

(* ---- request bodies ---- *)
ActionTypes == {"click", "fill", "wait", "screenshot", "goto", "scroll", "expect"}
DeviceTypes == {"desktop", "mobile", "tablet"}
BrowserTypes == {"chromium", "firefox", "webkit"}

GotoAction == [type |-> "goto", url |-> "https://example.com"]
ClickAction == [type |-> "click", selector |-> "#does-not-exist", timeout |-> 500]
ScreenshotAction == [type |-> "screenshot"]
ActionPool == {GotoAction, ScreenshotAction}

(* the action lists submitted: up to MaxActions actions, neighbours         *)
(* differing, so that a step recorded out of place shows                   *)
ActionLists ==
    {a \in UNION {[1..n -> ActionPool] : n \in 0..MaxActions} :
        \A i \in 1..(Len(a) - 1) : a[i] # a[i + 1]}

BaseBody == [deviceType |-> "desktop", browserType |-> "chromium"]
WithActions(acts) ==
    [deviceType |-> "desktop", browserType |-> "chromium", actions |-> acts]
WithTrace(acts) ==
    [deviceType |-> "desktop", browserType |-> "chromium", actions |-> acts,
     options |-> [generateTrace |-> TRUE]]

Bodies ==
    {BaseBody}
    \cup {WithActions(a) : a \in ActionLists}
    \cup {WithTrace(a) : a \in ActionLists}
    \cup {WithActions([i \in 1..(MaxSchemaActions + 1) |-> ClickAction])}
    \cup {[deviceType |-> "watch", browserType |-> "chromium",
           actions |-> <<GotoAction>>]}

(* actionSchema.safeParse(...).success *)
actionSchema(a) ==
    /\ Has(a, "type") /\ a.type \in ActionTypes
    /\ Has(a, "timeout") => a.timeout \in MinTimeout..MaxTimeout

(* jobConfigSchema without the .min(1) of its actions *)
jobConfigSchemaNoMin(body) ==
    /\ Has(body, "deviceType") /\ body.deviceType \in DeviceTypes
    /\ Has(body, "browserType") /\ body.browserType \in BrowserTypes
    /\ Has(body, "actions")
    /\ Len(body.actions) <= MaxSchemaActions
    /\ \A i \in 1..Len(body.actions) : actionSchema(body.actions[i])

(* jobConfigSchema.safeParse(body).success *)
jobConfigSchema(body) ==
    /\ Has(body, "deviceType") /\ body.deviceType \in DeviceTypes
    /\ Has(body, "browserType") /\ body.browserType \in BrowserTypes
    /\ Has(body, "actions")
    /\ Len(body.actions) >= MinSchemaActions
    /\ Len(body.actions) <= MaxSchemaActions
    /\ \A i \in 1..Len(body.actions) : actionSchema(body.actions[i])

(* config.options?.generateTrace *)
generateTrace(config) == Has(config, "options") /\ TruthyFlag(config.options, "generateTrace")

(* identifiers a client may put in a request path *)
RequestIds == {randomUUID(n) : n \in Slots} \cup {"job_87ed99b7"}

(* screenshot file names a client may put in a request path: those of the *)
(* captures a job can make, and one without its extension                 *)
RequestShots ==
    {randomShotUUID(k) \o ".png" : k \in 1..(MaxActions + 1)}
        \cup {randomShotUUID(1)}

(* ---- state ---- *)
VARIABLES
    jobsKV,        \* GHOST_PLAYWRIGHT_JOBS_KV: key -> stored Job
    artifactsKV,   \* GHOST_PLAYWRIGHT_ARTIFACTS_KV: key -> blob
    traceZip,      \* the file "trace.zip": the job whose trace it holds
    uuidCount,     \* job identifiers drawn so far
    pc,            \* per job: position of its handler / background task
    job,           \* per job: the `job` object of the Submit handler
    run,           \* per job: the locals of executePlaywrightSequence
    caught,        \* per job: the error held by the task's catch block
    writes,        \* per job: statuses stored under its key, in order
    faults         \* environment calls that have thrown

vars == <<jobsKV, artifactsKV, traceZip, uuidCount, pc, job, run, caught,
          writes, faults>>

NoFile == "none"
NoJob == [status |-> "none"]
NoError == [isError |-> FALSE, message |-> ""]

(* the locals of executePlaywrightSequence before its first statement *)
NewRun ==
    [browser |-> FALSE, page |-> FALSE, closed |-> FALSE,
     i |-> 0, steps |-> <<>>, screenshots |-> <<>>, shots |-> 0,
     dispatched |-> <<>>, calls |-> <<>>, failedAt |-> 0, closeAttempts |-> 0,
     tracing |-> FALSE,
     traceUrl |-> FALSE, url |-> "about:blank", ticks |-> 0, duration |-> 0,
     error |-> NoError, thrown |-> NoError, errorScreenshot |-> "",
     result |-> [status |-> "none"]]

Init ==
    /\ jobsKV = <<>>
    /\ artifactsKV = <<>>
    /\ traceZip = NoFile
    /\ uuidCount = 0
    /\ pc = [n \in Slots |-> "unused"]
    /\ job = [n \in Slots |-> NoJob]
    /\ run = [n \in Slots |-> NewRun]
    /\ caught = [n \in Slots |-> NoError]
    /\ writes = [n \in Slots |-> <<>>]
    /\ faults = 0

(* an environment call may throw while the fault budget lasts *)
MayThrow == faults < MaxFaults

(* storeJob(j, kv), the put having succeeded *)
storeJob(n, j) ==
    /\ jobsKV' = kvPut(jobsKV, jobKey(j.id), j)
    /\ writes' = [writes EXCEPT ![n] = Append(@, j.status)]

(* getJob(jobId, kv) *)
getJob(jobId) ==
    IF jobKey(jobId) \in DOMAIN jobsKV THEN jobsKV[jobKey(jobId)] ELSE NoJob

(* ---- POST /api/v1/jobs ---- *)

(* the response of the validator, lines 425-431: 400 for a body the schema *)
(* rejects, and otherwise none, the handler being called                   *)
validatorResponse(body) ==
    IF ~jobConfigSchema(body)
    THEN [code |-> 400, error |-> "Invalid request body"]
    ELSE [code |-> 0]

(* the validator rejects the body: the handler is not called *)
SubmitInvalid(body) ==
    /\ validatorResponse(body).code = 400
    /\ UNCHANGED vars

(* submitResponse with the error of the put swallowed *)
submitResponseSwallows(n) ==
    IF pc[n] = "unused" THEN [code |-> 0]
    ELSE [code |-> 202, jobId |-> job[n].id, status |-> "pending"]

(* the response of the handler of job n, once its put has returned: 202,  *)
(* or the 500 of app.onError when storeJob threw                          *)
submitResponse(n) ==
    IF pc[n] = "unused" THEN [code |-> 0]
    ELSE IF pc[n] = "error500"
    THEN [code |-> 500, error |-> "Internal server error"]
    ELSE [code |-> 202, jobId |-> job[n].id, status |-> "pending"]

(* the handler, lines 432-489: draw an id, store the pending record, start *)
(* the task, which runs up to its first await, and respond 202; if the put *)
(* throws the handler throws before the task is made                       *)
Submit(body) ==
    /\ validatorResponse(body).code = 0
    /\ uuidCount < MaxJobs
    /\ LET n == uuidCount + 1
           j == [id |-> randomUUID(n), status |-> "pending",
                 createdAt |-> "t", config |-> body]
       IN /\ uuidCount' = n
          /\ job' = [job EXCEPT ![n] = j]
          /\ \/ /\ storeJob(n, j)
                /\ pc' = [pc EXCEPT ![n] = "putRunning"]
                /\ UNCHANGED faults
             \/ /\ MayThrow
                /\ faults' = faults + 1
                /\ pc' = [pc EXCEPT ![n] = "error500"]
                /\ UNCHANGED <<jobsKV, writes>>
    /\ UNCHANGED <<artifactsKV, traceZip, run, caught>>

(* ---- errors thrown by the environment ---- *)
Err(msg) == [isError |-> TRUE, message |-> msg]
KVError == Err("KV PUT failed")
CloseError == Err("browser.close: failed")

(* error instanceof Error ? error.message : fallback *)
errorMessage(e, fallback) == IF e.isError THEN e.message ELSE fallback

(* ---- getLocator / getActionDescription ---- *)

(* getLocator trying the raw selector first *)
getLocatorSelectorFirst(action) ==
    IF Truthy(action, "selector") THEN "locator"
    ELSE IF Truthy(action, "getByLabel") THEN "getByLabel"
    ELSE IF TruthyText(action) THEN "getByText"
    ELSE IF Truthy(action, "getByName") THEN "getByRole"
    ELSE "null"

(* which locator getLocator(page, action) builds; "null" when none *)
getLocator(action) ==
    IF Truthy(action, "getByLabel") THEN "getByLabel"
    ELSE IF TruthyText(action) THEN "getByText"
    ELSE IF Truthy(action, "getByName") THEN "getByRole"
    ELSE IF Truthy(action, "selector") THEN "locator"
    ELSE "null"

getActionDescription(action) ==
    LET locatorDesc ==
            IF Truthy(action, "getByLabel")
                THEN "getByLabel(\"" \o action.getByLabel \o "\")"
            ELSE IF TruthyText(action)
                THEN "getByText(\""
                        \o (IF Has(action.getByText, "string")
                            THEN action.getByText.string
                            ELSE action.getByText.text)
                        \o "\")"
            ELSE IF Truthy(action, "getByName")
                THEN "getByName(\"" \o action.getByName \o "\")"
            ELSE IF Truthy(action, "selector")
                THEN "locator(\"" \o action.selector \o "\")"
            ELSE ""
        withText ==
            IF Truthy(action, "text")
                THEN action.type \o " \"" \o action.text \o "\""
                ELSE action.type
        actionDesc ==
            IF Truthy(action, "url") THEN withText \o " " \o action.url
            ELSE withText
    IN IF locatorDesc # "" THEN actionDesc \o " on " \o locatorDesc
       ELSE actionDesc

(* whether the switch of the action loop calls the browser for this action *)
callsBrowser(action) ==
    CASE action.type = "goto" -> Truthy(action, "url")
      [] action.type \in {"click", "scroll"} ->
            getLocator(action) # "null" \/ (Has(action, "x") /\ Has(action, "y"))
      [] action.type = "fill" ->
            getLocator(action) # "null" /\ Truthy(action, "text")
      [] action.type = "expect" -> Truthy(action, "toContainText")
      [] OTHER -> TRUE

(* the call the switch of the action loop makes for an action, lines       *)
(* 269-326: the method and what it is given; NoCall when the case falls    *)
(* through without a call.  An expect without a locator calls .first() on  *)
(* null, which throws a TypeError.                                         *)
NoCall == [op |-> "none"]
browserCall(action) ==
    CASE action.type = "goto" ->
            IF Truthy(action, "url") THEN [op |-> "goto", url |-> action.url]
            ELSE NoCall
      [] action.type = "click" ->
            IF getLocator(action) # "null"
                THEN [op |-> "first.click", on |-> getLocator(action)]
            ELSE IF Has(action, "x") /\ Has(action, "y")
                THEN [op |-> "mouse.click", x |-> action.x, y |-> action.y]
            ELSE NoCall
      [] action.type = "fill" ->
            IF getLocator(action) # "null" /\ Truthy(action, "text")
                THEN [op |-> "fill", on |-> getLocator(action), text |-> action.text]
            ELSE NoCall
      [] action.type = "scroll" ->
            IF getLocator(action) # "null"
                THEN [op |-> "first.scrollIntoViewIfNeeded", on |-> getLocator(action)]
            ELSE IF Has(action, "x") /\ Has(action, "y")
                THEN [op |-> "mouse.wheel", x |-> action.x, y |-> action.y]
            ELSE NoCall
      [] action.type = "wait" ->
            [op |-> "waitForTimeout",
             ms |-> IF TruthyNum(action, "timeout") THEN action.timeout
                    ELSE DefaultWaitMs]
      [] action.type = "expect" ->
            IF ~Truthy(action, "toContainText") THEN NoCall
            ELSE IF getLocator(action) = "null" THEN [op |-> "TypeError"]
            ELSE [op |-> "toContainText", on |-> getLocator(action),
                  text |-> action.toContainText]
      [] OTHER -> [op |-> "screenshot"]

(* ---- executePlaywrightSequence ---- *)

JobId(n) == job[n].id
Config(n) == job[n].config
Actions(n) == Config(n).actions

(* where the Runner is once the loop variable is i *)
LoopAt(n, i) ==
    IF i <= Len(Actions(n)) THEN "action"
    ELSE IF generateTrace(Config(n)) THEN "traceStop" ELSE "close"

(* the trace object of the result *)
traceOf(n, r) ==
    IF r.traceUrl
    THEN [steps |-> r.steps, traceViewerUrl |-> traceViewerUrl(JobId(n))]
    ELSE [steps |-> r.steps]

(* the JobResult of the success return; the timing and network counters   *)
(* of statistics are measurements and carry no value here                 *)
successResult(n, r) ==
    [status |-> "success", duration |-> r.duration, timestamp |-> "t",
     statistics |-> [screenshots |-> r.screenshots, finalUrl |-> r.url],
     trace |-> traceOf(n, r)]

(* the JobResult of the outer catch *)
failResult(n, r) ==
    [status |-> "fail", duration |-> r.duration, timestamp |-> "t",
     error |-> IF r.errorScreenshot # ""
               THEN [message |-> errorMessage(r.error, "Unknown error"),
                     stack |-> "stack", screenshot |-> r.errorScreenshot]
               ELSE [message |-> errorMessage(r.error, "Unknown error"),
                     stack |-> "stack"],
     trace |-> traceOf(n, r)]

(* a step of the Runner of job n leaves its locals as r and its task at p *)
RunnerTo(n, r, p) ==
    /\ run' = [run EXCEPT ![n] = [r EXCEPT !.ticks = @ + 1]]
    /\ pc' = [pc EXCEPT ![n] = p]

(* the Runner returns: the task goes on to store the terminal record *)
Return(n, r, res) == RunnerTo(n, [r EXCEPT !.result = res], "putTerminal")

(* Throw that closes the browser only when there is a page *)
ThrowClosesWithPage(n, r, e) ==
    LET c == [r EXCEPT !.error = e, !.duration = r.ticks + 1]
    IN IF c.page THEN RunnerTo(n, c, "catchShot")
       ELSE Return(n, c, failResult(n, c))

(* Throw that leaves the Runner: the exception reaches the task's catch *)
ThrowEscapes(n, r, e) ==
    RunnerTo(n, [r EXCEPT !.error = e, !.duration = r.ticks + 1], "catch")

(* an exception reaches the outer catch (lines 392-407): duration is taken, *)
(* then the diagnostic screenshot if there is a page, then the close if     *)
(* there is a browser                                                      *)
Throw(n, r, e) ==
    LET c == [r EXCEPT !.error = e, !.duration = r.ticks + 1]
    IN IF c.page THEN RunnerTo(n, c, "catchShot")
       ELSE IF c.browser THEN RunnerTo(n, c, "catchClose")
       ELSE Return(n, c, failResult(n, c))

(* Rethrow with the error swallowed: the loop goes on to the next action *)
RethrowSwallowed(n, r, e) ==
    RunnerTo(n, [r EXCEPT !.i = @ + 1], LoopAt(n, r.i + 1))

(* throw error, line 359: the per-action catch hands the action's error on *)
Rethrow(n, r, e) == Throw(n, r, e)

Fault == MayThrow /\ faults' = faults + 1
NoFault == UNCHANGED faults

(* playwright.launch *)
Launch(n) ==
    /\ pc[n] = "launch"
    /\ \/ NoFault /\ RunnerTo(n, [run[n] EXCEPT !.browser = TRUE], "newPage")
       \/ Fault /\ Throw(n, run[n], Err("browserType.launch: failed"))
    /\ UNCHANGED <<jobsKV, artifactsKV, traceZip, uuidCount, job, caught,
                   writes>>

(* NewPage that goes to the loop without starting the trace capture *)
NewPageSkipsTracing(n) ==
    /\ pc[n] = "newPage"
    /\ \/ /\ NoFault
          /\ RunnerTo(n, [run[n] EXCEPT !.page = TRUE, !.i = 1], LoopAt(n, 1))
       \/ Fault /\ Throw(n, run[n], Err("browser.newPage: failed"))
    /\ UNCHANGED <<jobsKV, artifactsKV, traceZip, uuidCount, job, caught,
                   writes>>

(* browser.newPage; without tracing the loop starts right after *)
NewPage(n) ==
    /\ pc[n] = "newPage"
    /\ \/ /\ NoFault
          /\ RunnerTo(n, [run[n] EXCEPT !.page = TRUE, !.i = 1],
                      IF generateTrace(Config(n)) THEN "traceStart"
                      ELSE LoopAt(n, 1))
       \/ Fault /\ Throw(n, run[n], Err("browser.newPage: failed"))
    /\ UNCHANGED <<jobsKV, artifactsKV, traceZip, uuidCount, job, caught,
                   writes>>

(* page.context().tracing.start *)
TraceStart(n) ==
    /\ pc[n] = "traceStart"
    /\ \/ NoFault /\ RunnerTo(n, [run[n] EXCEPT !.tracing = TRUE], LoopAt(n, 1))
       \/ Fault /\ Throw(n, run[n], Err("tracing.start: failed"))
    /\ UNCHANGED <<jobsKV, artifactsKV, traceZip, uuidCount, job, caught,
                   writes>>

(* the step pushed for a successful action *)
successStep(action, d) ==
    [action |-> getActionDescription(action), timestamp |-> "t",
     duration |-> d, success |-> TRUE]

(* the step pushed by the per-action catch *)
failedStep(action, d, e, shot) ==
    IF shot # ""
    THEN [action |-> getActionDescription(action), timestamp |-> "t",
          duration |-> d, success |-> FALSE,
          error |-> errorMessage(e, "Unknown error"), screenshot |-> shot]
    ELSE [action |-> getActionDescription(action), timestamp |-> "t",
          duration |-> d, success |-> FALSE,
          error |-> errorMessage(e, "Unknown error")]

(* one iteration of the action loop, lines 257-336: the action is          *)
(* dispatched and either succeeds, its step pushed, or throws into the     *)
(* per-action catch                                                        *)
Action(n) ==
    /\ pc[n] = "action"
    /\ LET r == run[n]
           i == r.i
           action == Actions(n)[i]
           sid == randomShotUUID(r.shots + 1)
           call == browserCall(action)
           went == [r EXCEPT !.dispatched = Append(@, i),
                             !.calls = Append(@, call)]
           pushed == [went EXCEPT !.steps = Append(@, successStep(action, 1)),
                                  !.i = i + 1]
           after == LoopAt(n, i + 1)
       IN \/ /\ action.type = "screenshot"
             /\ NoFault
             /\ artifactsKV' = kvPut(artifactsKV, screenshotKey(JobId(n), sid),
                                     [kind |-> "png", of |-> JobId(n)])
             /\ RunnerTo(n, [pushed EXCEPT
                                !.shots = @ + 1,
                                !.screenshots =
                                    Append(@, screenshotPath(JobId(n), sid))],
                         after)
          \/ /\ action.type # "screenshot"
             /\ call.op # "TypeError"
             /\ NoFault
             /\ UNCHANGED artifactsKV
             /\ RunnerTo(n, IF action.type = "goto" /\ Truthy(action, "url")
                            THEN [pushed EXCEPT !.url = action.url \o "/"]
                            ELSE pushed,
                         after)
          \/ /\ callsBrowser(action)
             /\ call.op # "TypeError"
             /\ Fault
             /\ UNCHANGED artifactsKV
             /\ RunnerTo(n, [went EXCEPT !.error = Err(action.type \o ": failed"),
                                          !.thrown = Err(action.type \o ": failed"),
                                          !.failedAt = i],
                         "actionCatch")
          \/ /\ call.op = "TypeError"
             /\ NoFault
             /\ UNCHANGED artifactsKV
             /\ RunnerTo(n, [went EXCEPT
                               !.error = Err("Cannot read properties of null"),
                               !.thrown = Err("Cannot read properties of null"),
                               !.failedAt = i],
                         "actionCatch")
    /\ UNCHANGED <<jobsKV, traceZip, uuidCount, job, caught, writes>>

(* the per-action catch, lines 338-360: a diagnostic screenshot is tried;  *)
(* a failed capture gives null, a failed store throws out of the catch     *)
ActionCatch(n) ==
    /\ pc[n] = "actionCatch"
    /\ LET r == run[n]
           action == Actions(n)[r.i]
           sid == randomShotUUID(r.shots + 1)
       IN \/ /\ NoFault
             /\ artifactsKV' = kvPut(artifactsKV, screenshotKey(JobId(n), sid),
                                     [kind |-> "png", of |-> JobId(n)])
             /\ Rethrow(n, [r EXCEPT
                            !.shots = @ + 1,
                            !.steps = Append(@, failedStep(action, 1, r.error,
                                          screenshotPath(JobId(n), sid)))],
                      r.error)
          \/ /\ Fault
             /\ UNCHANGED artifactsKV
             /\ Rethrow(n, [r EXCEPT
                            !.steps = Append(@, failedStep(action, 1, r.error, ""))],
                      r.error)
          \/ /\ Fault
             /\ UNCHANGED artifactsKV
             /\ Throw(n, [r EXCEPT !.shots = @ + 1], KVError)
    /\ UNCHANGED <<jobsKV, traceZip, uuidCount, job, caught, writes>>

(* the outer catch's diagnostic screenshot, lines 396-405: any failure is  *)
(* swallowed; on a session that is already closed the capture cannot work  *)
CatchShot(n) ==
    /\ pc[n] = "catchShot"
    /\ LET r == run[n]
           sid == randomShotUUID(r.shots + 1)
       IN \/ /\ ~r.closed
             /\ NoFault
             /\ artifactsKV' = kvPut(artifactsKV, screenshotKey(JobId(n), sid),
                                     [kind |-> "png", of |-> JobId(n)])
             /\ RunnerTo(n, [r EXCEPT
                               !.shots = @ + 1,
                               !.errorScreenshot = screenshotPath(JobId(n), sid)],
                         "catchClose")
          \/ /\ IF r.closed THEN NoFault ELSE Fault
             /\ UNCHANGED artifactsKV
             /\ RunnerTo(n, r, "catchClose")
    /\ UNCHANGED <<jobsKV, traceZip, uuidCount, job, caught, writes>>

(* if (browser) await browser.close().catch(() => {}), line 407, and the   *)
(* return of the failure result                                            *)
CatchClose(n) ==
    /\ pc[n] = "catchClose"
    /\ LET r == [run[n] EXCEPT !.closeAttempts = @ + 1]
       IN \/ /\ NoFault
             /\ Return(n, [r EXCEPT !.closed = TRUE],
                       failResult(n, r))
          \/ /\ Fault
             /\ Return(n, r, failResult(n, r))
    /\ UNCHANGED <<jobsKV, artifactsKV, traceZip, uuidCount, job, caught,
                   writes>>

(* tracing.stop({ path: 'trace.zip' }), line 364: the session's trace is   *)
(* written to the one file of that name                                    *)
TraceStop(n) ==
    /\ pc[n] = "traceStop"
    /\ \/ /\ NoFault
          /\ traceZip' = JobId(n)
          /\ RunnerTo(n, [run[n] EXCEPT !.tracing = FALSE], "close")
       \/ /\ Fault
          /\ UNCHANGED traceZip
          /\ Throw(n, run[n], Err("tracing.stop: failed"))
    /\ UNCHANGED <<jobsKV, artifactsKV, uuidCount, job, caught, writes>>

(* page.url(), the duration and browser.close(), lines 366-369; without    *)
(* tracing the success result is returned right after                      *)
Close(n) ==
    /\ pc[n] = "close"
    /\ LET r == [run[n] EXCEPT !.closeAttempts = @ + 1,
                               !.duration = run[n].ticks + 1]
           shut == [r EXCEPT !.closed = TRUE]
       IN \/ /\ NoFault
             /\ IF generateTrace(Config(n))
                THEN RunnerTo(n, shut, "storeTrace")
                ELSE Return(n, shut, successResult(n, shut))
          \/ /\ Fault
             /\ \E c \in BOOLEAN :
                    Throw(n, [r EXCEPT !.closed = c], CloseError)
    /\ UNCHANGED <<jobsKV, artifactsKV, traceZip, uuidCount, job, caught,
                   writes>>

(* fs.promises.readFile("trace.zip") and storeTrace, lines 371-375, and    *)
(* the return of the success result; the bundle stored is what the file    *)
(* holds when it is read, and a failed read or put throws                  *)
StoreTrace(n) ==
    /\ pc[n] = "storeTrace"
    /\ LET r == run[n]
       IN \/ /\ traceZip # NoFile
             /\ NoFault
             /\ artifactsKV' = kvPut(artifactsKV, traceKey(JobId(n)),
                                     [kind |-> "zip", of |-> traceZip])
             /\ Return(n, [r EXCEPT !.traceUrl = TRUE],
                       successResult(n, [r EXCEPT !.traceUrl = TRUE]))
          \/ /\ Fault
             /\ UNCHANGED artifactsKV
             /\ Throw(n, r, KVError)
    /\ UNCHANGED <<jobsKV, traceZip, uuidCount, job, caught, writes>>

(* ---- the background task of Submit, lines 447-482 ---- *)

(* storeJob(updatedJob): the running record *)
TaskPutRunning(n) ==
    /\ pc[n] = "putRunning"
    /\ \/ /\ NoFault
          /\ storeJob(n, [job[n] EXCEPT !.status = "running"])
          /\ pc' = [pc EXCEPT ![n] = "launch"]
          /\ UNCHANGED caught
       \/ /\ Fault
          /\ caught' = [caught EXCEPT ![n] = KVError]
          /\ pc' = [pc EXCEPT ![n] = "catch"]
          /\ UNCHANGED <<jobsKV, writes>>
    /\ UNCHANGED <<artifactsKV, traceZip, uuidCount, job, run>>

(* completedJob storing completed whatever the result *)
completedJobAlwaysCompleted(j, result) ==
    [id |-> j.id, createdAt |-> j.createdAt, config |-> j.config,
     status |-> "completed", completedAt |-> "t", result |-> result]

(* completedJob with the status of the spread job left in place *)
completedJobKeepsStatus(j, result) ==
    [id |-> j.id, createdAt |-> j.createdAt, config |-> j.config,
     status |-> j.status, completedAt |-> "t", result |-> result]

(* { ...job, status, completedAt, result }, lines 455-460 *)
completedJob(j, result) ==
    [id |-> j.id, createdAt |-> j.createdAt, config |-> j.config,
     status |-> IF result.status = "success" THEN "completed" ELSE "failed",
     completedAt |-> "t", result |-> result]

(* failedJob without its completedAt *)
failedJobNoCompletedAt(j, error) ==
    [id |-> j.id, createdAt |-> j.createdAt, config |-> j.config,
     status |-> "failed",
     result |-> [status |-> "fail", duration |-> 0, timestamp |-> "t",
                 error |-> [message |-> errorMessage(error, "Test execution failed"),
                            stack |-> "stack"]]]

(* failedJob keeping the trace of the job and a measured duration *)
failedJobMeasured(j, error) ==
    [id |-> j.id, createdAt |-> j.createdAt, config |-> j.config,
     status |-> "failed", completedAt |-> "t",
     result |-> [status |-> "fail", duration |-> 1, timestamp |-> "t",
                 error |-> [message |-> errorMessage(error, "Test execution failed"),
                            stack |-> "stack"],
                 trace |-> [steps |-> <<>>]]]

(* the record of the task's catch block, lines 465-478 *)
failedJob(j, error) ==
    [id |-> j.id, createdAt |-> j.createdAt, config |-> j.config,
     status |-> "failed", completedAt |-> "t",
     result |-> [status |-> "fail", duration |-> 0, timestamp |-> "t",
                 error |-> [message |-> errorMessage(error, "Test execution failed"),
                            stack |-> "stack"]]]

(* TaskPutTerminal where the try block throws after its store returned *)
TaskPutTerminalThenThrows(n) ==
    /\ pc[n] = "putTerminal"
    /\ \/ /\ NoFault
          /\ storeJob(n, completedJob(job[n], run[n].result))
          /\ caught' = [caught EXCEPT ![n] = Err("after store")]
          /\ pc' = [pc EXCEPT ![n] = "catch"]
       \/ /\ Fault
          /\ caught' = [caught EXCEPT ![n] = KVError]
          /\ pc' = [pc EXCEPT ![n] = "catch"]
          /\ UNCHANGED <<jobsKV, writes>>
    /\ UNCHANGED <<artifactsKV, traceZip, uuidCount, job, run>>

(* storeJob(completedJob) *)
TaskPutTerminal(n) ==
    /\ pc[n] = "putTerminal"
    /\ \/ /\ NoFault
          /\ storeJob(n, completedJob(job[n], run[n].result))
          /\ pc' = [pc EXCEPT ![n] = "done"]
          /\ UNCHANGED caught
       \/ /\ Fault
          /\ caught' = [caught EXCEPT ![n] = KVError]
          /\ pc' = [pc EXCEPT ![n] = "catch"]
          /\ UNCHANGED <<jobsKV, writes>>
    /\ UNCHANGED <<artifactsKV, traceZip, uuidCount, job, run>>

(* the catch block: storeJob(failedJob); if this put throws too, the       *)
(* promise given to waitUntil rejects and the task is over                 *)
TaskCatch(n) ==
    /\ pc[n] = "catch"
    /\ \/ /\ NoFault
          /\ storeJob(n, failedJob(job[n], caught[n]))
          /\ pc' = [pc EXCEPT ![n] = "done"]
       \/ /\ Fault
          /\ pc' = [pc EXCEPT ![n] = "rejected"]
          /\ UNCHANGED <<jobsKV, writes>>
    /\ UNCHANGED <<artifactsKV, traceZip, uuidCount, job, run, caught>>

(* ---- GET /api/v1/jobs/:jobId, lines 492-497 ---- *)
getResponse(jobId) ==
    IF getJob(jobId) = NoJob
    THEN [code |-> 404, error |-> "Job not found"]
    ELSE [code |-> 200, body |-> getJob(jobId)]

(* the handler reads and writes nothing *)
Get(jobId) ==
    /\ getResponse(jobId).code \in {200, 404}
    /\ UNCHANGED vars

(* ---- GET /api/v1/jobs/:jobId/trace, lines 500-513 ---- *)

(* fetchTraceResponse without the test of line 503 *)
fetchTraceResponseNoTest(jobId) ==
    [code |-> 200, contentType |-> "application/zip",
     body |-> IF traceKey(jobId) \in DOMAIN artifactsKV
              THEN artifactsKV[traceKey(jobId)] ELSE [kind |-> "null"]]

fetchTraceResponse(jobId) ==
    IF traceKey(jobId) \notin DOMAIN artifactsKV
    THEN [code |-> 404, error |-> "Trace file not found"]
    ELSE [code |-> 200, contentType |-> "application/zip",
          body |-> artifactsKV[traceKey(jobId)]]

(* the handler reads and writes nothing *)
FetchTrace(jobId) ==
    /\ fetchTraceResponse(jobId).code \in {200, 404}
    /\ UNCHANGED vars

(* ---- GET /api/v1/jobs/:jobId/screenshots/:screenshotId, lines 542-558 ---- *)

(* the parameters the router takes from a request path under the pattern  *)
(* of line 542: jobId up to "/screenshots/", screenshotId all after it     *)
screenshotRoute(path) ==
    LET prefix == "/api/v1/jobs/"
        mid == "/screenshots/"
        rest == SubSeq(path, Len(prefix) + 1, Len(path))
        cuts == {i \in 1..Len(rest) : startsWith(SubSeq(rest, i, Len(rest)), mid)}
    IN IF ~startsWith(path, prefix) \/ cuts = {}
       THEN [matched |-> FALSE]
       ELSE LET i == CHOOSE c \in cuts : \A d \in cuts : c <= d
            IN [matched |-> TRUE,
                jobId |-> SubSeq(rest, 1, i - 1),
                screenshotId |-> SubSeq(rest, i + Len(mid), Len(rest))]

(* the key the handler reads, line 546: the parameter is used as it came  *)
fetchScreenshotKey(jobId, screenshotId) ==
    "screenshot:" \o jobId \o ":" \o screenshotId

fetchScreenshotResponse(jobId, screenshotId) ==
    IF fetchScreenshotKey(jobId, screenshotId) \notin DOMAIN artifactsKV
    THEN [code |-> 404, error |-> "Screenshot not found"]
    ELSE [code |-> 200, contentType |-> "image/png",
          body |-> artifactsKV[fetchScreenshotKey(jobId, screenshotId)]]

(* the handler reads and writes nothing *)
FetchScreenshot(jobId, screenshotId) ==
    /\ fetchScreenshotResponse(jobId, screenshotId).code \in {200, 404}
    /\ UNCHANGED vars

(* ---- DELETE /api/v1/jobs/:jobId, lines 515-540 ---- *)

(* the id check comes first, then the lookup *)
deleteResponse(jobId) ==
    IF jobId = "" \/ ~startsWith(jobId, "job_")
    THEN [code |-> 400, error |-> "Invalid job ID"]
    ELSE IF getJob(jobId) = NoJob
    THEN [code |-> 404, error |-> "Job not found"]
    ELSE [code |-> 200, message |-> "Job deleted successfully", jobId |-> jobId]

(* the two namespaces as the handler leaves them: untouched on 400 and    *)
(* 404, and after the deletions of lines 523-534 otherwise                 *)
deleteOutcome(jobId) ==
    IF deleteResponse(jobId).code # 200
    THEN [jobs |-> jobsKV, artifacts |-> artifactsKV]
    ELSE LET a == kvDelete(artifactsKV, traceKey(jobId))
             keys == kvList(a, "screenshot:" \o jobId)
         IN [jobs |-> kvDelete(jobsKV, jobKey(jobId)),
             artifacts |-> [k \in DOMAIN a \ keys |-> a[k]]]

(* The deletions are several awaits in the code; they are one step here,   *)
(* since no stored job has an id that passes the check and the step is     *)
(* never taken.                                                            *)
Delete(jobId) ==
    /\ jobsKV' = deleteOutcome(jobId).jobs
    /\ artifactsKV' = deleteOutcome(jobId).artifacts
    /\ UNCHANGED <<traceZip, uuidCount, pc, job, run, caught, writes, faults>>

Next ==
    \/ \E body \in Bodies : SubmitInvalid(body)
    \/ \E body \in Bodies : Submit(body)
    \/ \E n \in Slots : TaskPutRunning(n)
    \/ \E n \in Slots : Launch(n)
    \/ \E n \in Slots : NewPage(n)
    \/ \E n \in Slots : TraceStart(n)
    \/ \E n \in Slots : Action(n)
    \/ \E n \in Slots : ActionCatch(n)
    \/ \E n \in Slots : TraceStop(n)
    \/ \E n \in Slots : Close(n)
    \/ \E n \in Slots : StoreTrace(n)
    \/ \E n \in Slots : CatchShot(n)
    \/ \E n \in Slots : CatchClose(n)
    \/ \E n \in Slots : TaskPutTerminal(n)
    \/ \E n \in Slots : TaskCatch(n)
    \/ \E jobId \in RequestIds : Get(jobId)
    \/ \E jobId \in RequestIds : FetchTrace(jobId)
    \/ \E jobId \in RequestIds, screenshotId \in RequestShots :
          FetchScreenshot(jobId, screenshotId)
    \/ \E jobId \in RequestIds : Delete(jobId)

Spec == Init /\ [][Next]_vars

(* ---- one job of one action, over the shapes an action can take ---- *)

(* an optional property: left out, or holding one of the values *)
Opt(f, values) == {<<>>} \cup {f :> v : v \in values}

(* the locator fields: each unset, the empty string, or a value; getByText *)
(* also in its object form                                                 *)
LocatorFields ==
    {l @@ t @@ nm @@ sel :
        l \in Opt("getByLabel", {"", "Email"}),
        t \in Opt("getByText", {[string |-> ""], [string |-> "Sign in"],
                                [text |-> ""], [text |-> "Sign in", exact |-> TRUE]}),
        nm \in Opt("getByName", {"", "q"}),
        sel \in Opt("selector", {"", "#submit"})}

(* the coordinates: none, one of the two, or both, 0 included *)
PointFields ==
    {<<>>, "x" :> 10, "y" :> 20, ("x" :> 0) @@ ("y" :> 0), ("x" :> 10) @@ ("y" :> 20)}

TimeoutValues == {MinTimeout, 1, DefaultWaitMs, MaxTimeout, MaxTimeout + 1}

ProbeActions ==
    {("type" :> ty) @@ loc @@ pt :
        ty \in {"click", "scroll"}, loc \in LocatorFields, pt \in PointFields}
    \cup {("type" :> "fill") @@ sel @@ txt :
            sel \in Opt("selector", {"", "#submit"}),
            txt \in Opt("text", {"", "hello"})}
    \cup {("type" :> "wait") @@ t : t \in Opt("timeout", TimeoutValues)}
    \cup {("type" :> "expect") @@ sel @@ txt :
            sel \in Opt("selector", {"#submit"}),
            txt \in Opt("toContainText", {"Welcome"})}

ProbeBodies == {WithActions(<<a>>) : a \in ProbeActions}

(* the first request, a Submit of a body with one action, and the task of *)
(* the job it starts                                                      *)
ActionNext ==
    \/ uuidCount = 0 /\ \E body \in ProbeBodies : SubmitInvalid(body)
    \/ uuidCount = 0 /\ \E body \in ProbeBodies : Submit(body)
    \/ \E n \in Slots : TaskPutRunning(n)
    \/ \E n \in Slots : Launch(n)
    \/ \E n \in Slots : NewPage(n)
    \/ \E n \in Slots : Action(n)
    \/ \E n \in Slots : ActionCatch(n)
    \/ \E n \in Slots : Close(n)
    \/ \E n \in Slots : CatchShot(n)
    \/ \E n \in Slots : CatchClose(n)
    \/ \E n \in Slots : TaskPutTerminal(n)
    \/ \E n \in Slots : TaskCatch(n)

ActionSpec == Init /\ [][ActionNext]_vars

(***************************************************************************)
(* The claims                                                              *)
(***************************************************************************)

Terminal == {"completed", "failed"}
IsPrefix(s, t) == Len(s) <= Len(t) /\ SubSeq(t, 1, Len(s)) = s

(* job n was answered 202 *)
Acked(n) == submitResponse(n).code = 202
(* the background task of job n is over, by returning or by rejecting *)
TaskOver(n) == pc[n] \in {"done", "rejected"}
(* the Runner of job n has returned *)
Returned(n) == run[n].result.status # "none"

(* C1, as claimed: the statuses written under a job's id are pending, then *)
(* running, then one of completed or failed, with no write skipping        *)
(* running, on every run, a failing storage write included.                *)
C1_PendingRunningTerminal ==
    \A n \in Slots :
        \/ IsPrefix(writes[n], <<"pending", "running", "completed">>)
        \/ IsPrefix(writes[n], <<"pending", "running", "failed">>)

(* C1, amended: the statuses written under a job's id never move          *)
(* backwards and there is at most one write of running and at most one of  *)
(* a terminal status; the order is pending, running, completed or failed,  *)
(* except that failed follows pending directly when the write of the       *)
(* running record threw, the Runner then never having been called; a task  *)
(* that returns has written exactly one terminal status, last.             *)
C1_StatusOrder ==
    \A n \in Slots :
        /\ \/ IsPrefix(writes[n], <<"pending", "running", "completed">>)
           \/ IsPrefix(writes[n], <<"pending", "running", "failed">>)
           \/ /\ writes[n] = <<"pending", "failed">>
              /\ run[n] = NewRun
              /\ caught[n] = KVError
        /\ pc[n] = "done" =>
              /\ writes[n][Len(writes[n])] \in Terminal
              /\ Cardinality({k \in 1..Len(writes[n]) : writes[n][k] \in Terminal}) = 1

(* C1: one job went pending, running, completed and another went from      *)
(* pending to failed because its running record could not be written       *)
C1_Witness ==
    /\ \E n \in Slots : writes[n] = <<"pending", "running", "completed">>
    /\ \E n \in Slots : writes[n] = <<"pending", "failed">>

(* C2: every record in the Job Store has a result exactly when its status  *)
(* is completed or failed, and a completedAt exactly when its status is    *)
(* completed or failed.                                                    *)
C2_ResultIffTerminal ==
    \A k \in DOMAIN jobsKV :
        /\ Has(jobsKV[k], "result") <=> jobsKV[k].status \in Terminal
        /\ Has(jobsKV[k], "completedAt") <=> jobsKV[k].status \in Terminal

(* C2: the store holds a failed record written by the task's catch block   *)
(* next to a running record that has no result                             *)
C2_Witness ==
    /\ \E k \in DOMAIN jobsKV :
          /\ jobsKV[k].status = "failed"
          /\ Has(jobsKV[k], "result") /\ jobsKV[k].result.duration = 0
          /\ Has(jobsKV[k], "completedAt")
    /\ \E k \in DOMAIN jobsKV :
          /\ jobsKV[k].status = "running"
          /\ ~Has(jobsKV[k], "result") /\ ~Has(jobsKV[k], "completedAt")

(* C3, as claimed, in the form a finite run refutes: once the background   *)
(* task of an acknowledged job is over, the stored record of the job has   *)
(* status completed or failed, also when storage writes of the task threw. *)
C3_TaskOverMeansTerminal ==
    \A n \in Slots :
        (Acked(n) /\ TaskOver(n)) => getJob(JobId(n)).status \in Terminal

(* C4: a job answered 202 has its record in the Job Store, so Get on the   *)
(* returned id answers 200 with that job; until the task has stored the    *)
(* terminal record the status read is pending or running, pending right    *)
(* after the response; the ids of two jobs differ; and the validator lets  *)
(* every body with 1 to 50 actions through.                                *)
C4_SubmitThenGet ==
    /\ \A n \in Slots :
          Acked(n) =>
            /\ getResponse(submitResponse(n).jobId).code = 200
            /\ getResponse(submitResponse(n).jobId).body.id = submitResponse(n).jobId
            /\ pc[n] = "putRunning" =>
                  getResponse(submitResponse(n).jobId).body.status = "pending"
            /\ pc[n] # "done" =>
                  getResponse(submitResponse(n).jobId).body.status
                      \in {"pending", "running"}
            /\ \A m \in Slots \ {n} :
                  Acked(m) => submitResponse(m).jobId # submitResponse(n).jobId
    /\ \A body \in Bodies \cup {WithActions([i \in 1..MaxSchemaActions |-> ClickAction])} :
          (/\ Has(body, "actions")
           /\ Len(body.actions) \in 1..50
           /\ body.deviceType \in DeviceTypes) =>
              validatorResponse(body).code = 0

(* C4: a job has just been answered 202, its task not yet past its first   *)
(* await, and Get finds it pending                                         *)
C4_Witness ==
    \E n \in Slots :
        /\ Acked(n)
        /\ pc[n] = "putRunning"
        /\ getResponse(submitResponse(n).jobId).code = 200
        /\ getResponse(submitResponse(n).jobId).body.status = "pending"

(* a body as C5 names it: actions missing, empty, or longer than 50 *)
C5_BadBody(body) ==
    \/ ~Has(body, "actions")
    \/ Len(body.actions) = 0
    \/ Len(body.actions) > 50

(* C5: a Submit whose body has no actions, an empty list of them or more   *)
(* than 50, or an unknown device type, is answered 400 by the validator    *)
(* and the handler cannot run for it: no id is drawn, no record or         *)
(* artifact is written and no task is started.                             *)
C5_InvalidRejected ==
    \A body \in Bodies :
        (C5_BadBody(body) \/ body.deviceType \notin DeviceTypes) =>
            /\ validatorResponse(body).code = 400
            /\ ~ENABLED Submit(body)
            /\ ENABLED (SubmitInvalid(body) /\ UNCHANGED <<jobsKV, artifactsKV, uuidCount, pc>>)

(* C5: with a job stored and another id still to be drawn, bodies of each  *)
(* bad shape are on offer and each is answered 400                         *)
C5_Witness ==
    /\ uuidCount = 1
    /\ DOMAIN jobsKV # {}
    /\ \E body \in Bodies : ~Has(body, "actions") /\ validatorResponse(body).code = 400
    /\ \E body \in Bodies :
          /\ Has(body, "actions") /\ Len(body.actions) = 0
          /\ validatorResponse(body).code = 400
    /\ \E body \in Bodies :
          /\ Has(body, "actions") /\ Len(body.actions) > 50
          /\ validatorResponse(body).code = 400

(* the steps of job n's background task and Runner *)
JobStep(n) ==
    \/ TaskPutRunning(n) \/ Launch(n) \/ NewPage(n) \/ TraceStart(n)
    \/ Action(n) \/ ActionCatch(n) \/ TraceStop(n) \/ Close(n)
    \/ StoreTrace(n) \/ CatchShot(n) \/ CatchClose(n)
    \/ TaskPutTerminal(n) \/ TaskCatch(n)

(* C6, as claimed: when the Runner returns, trace.steps holds one step per *)
(* action attempted, in order: step k describes action k, every step       *)
(* before the last has success=true, and if an action failed the last step *)
(* is the success=false step of that action; the length is the number of   *)
(* actions attempted and at most the configured count.                     *)
C6_OneStepPerAttempt ==
    \A n \in Slots :
        Returned(n) =>
            LET steps == run[n].result.trace.steps
                attempted == run[n].dispatched
            IN /\ Len(steps) = Len(attempted)
               /\ Len(steps) <= Len(Actions(n))
               /\ \A k \in 1..Len(steps) :
                     /\ steps[k].action = getActionDescription(Actions(n)[k])
                     /\ k < Len(steps) => steps[k].success
               /\ run[n].failedAt # 0 =>
                     /\ Len(steps) = run[n].failedAt
                     /\ ~steps[Len(steps)].success

(* C7: once the action at index i has thrown, the actions dispatched are   *)
(* those up to i and the loop is not entered again; the result the Runner  *)
(* returns has status fail and a non-empty error.message; a terminal       *)
(* record of the job has status failed; and every other job whose task is  *)
(* under way can still take its next step.                                 *)
C7_FailureStopsTheJob ==
    \A n \in Slots :
        run[n].failedAt # 0 =>
            /\ run[n].dispatched = [k \in 1..run[n].failedAt |-> k]
            /\ pc[n] # "action"
            /\ Returned(n) =>
                  /\ run[n].result.status = "fail"
                  /\ run[n].result.error.message # ""
            /\ getJob(JobId(n)).status \in Terminal =>
                  /\ getJob(JobId(n)).status = "failed"
                  /\ getJob(JobId(n)).result.status = "fail"
                  /\ getJob(JobId(n)).result.error.message # ""
            /\ \A m \in Slots \ {n} :
                  (Acked(m) /\ ~TaskOver(m)) => ENABLED JobStep(m)

(* C7: the first action of a two-action job threw and the job is stored as *)
(* failed, while another job ran all its actions and is stored completed   *)
C7_Witness ==
    \E n, m \in Slots :
        /\ Acked(n) /\ Acked(m)
        /\ run[n].failedAt = 1 /\ Len(Actions(n)) = 2
        /\ getJob(JobId(n)).status = "failed"
        /\ run[m].failedAt = 0
        /\ getJob(JobId(m)).status = "completed"

(* C8: whenever the Runner returns after the launch gave it a browser, a   *)
(* close of that browser has been attempted.                               *)
C8_CloseAttempted ==
    \A n \in Slots :
        (Returned(n) /\ run[n].browser) => run[n].closeAttempts >= 1

(* C8: the Runner has returned after a failed page creation, with a        *)
(* browser and no page, and another Runner after its trace could not be    *)
(* stored; both attempted the close                                        *)
C8_Witness ==
    /\ \E n \in Slots :
          /\ Returned(n) /\ run[n].browser /\ ~run[n].page
          /\ run[n].closeAttempts >= 1
    /\ \E n \in Slots :
          /\ Returned(n) /\ run[n].page /\ run[n].error = KVError
          /\ run[n].failedAt = 0
          /\ run[n].closeAttempts >= 1

(* C9, as claimed: Delete on the id of a stored job, an id Submit returned *)
(* in particular, answers 200 and removes the record, so that Get on the   *)
(* id answers 404 from then on.                                            *)
C9_DeleteOfStoredJob ==
    \A n \in Slots :
        Acked(n) =>
            /\ deleteResponse(submitResponse(n).jobId).code = 200
            /\ jobKey(submitResponse(n).jobId)
                  \notin DOMAIN deleteOutcome(submitResponse(n).jobId).jobs

(* C10, as claimed: after Delete of an existing job has returned, neither  *)
(* the job record nor the trace artifact nor a screenshot artifact of the  *)
(* job is left in the stores, whatever the job's task is doing.            *)
C10_DeleteLeavesNothing ==
    \A jobId \in RequestIds :
        getJob(jobId) # NoJob =>
            /\ jobKey(jobId) \notin DOMAIN deleteOutcome(jobId).jobs
            /\ traceKey(jobId) \notin DOMAIN deleteOutcome(jobId).artifacts
            /\ kvList(deleteOutcome(jobId).artifacts, "screenshot:" \o jobId) = {}

(* the screenshot references a JobResult carries: those of its statistics, *)
(* that of its error and those of its trace steps                          *)
ScreenshotRefs(result) ==
    (IF Has(result, "statistics")
        THEN {result.statistics.screenshots[k] :
                 k \in 1..Len(result.statistics.screenshots)}
        ELSE {})
    \cup (IF Has(result, "error") /\ Has(result.error, "screenshot")
             THEN {result.error.screenshot} ELSE {})
    \cup (IF Has(result, "trace")
             THEN {result.trace.steps[k].screenshot :
                      k \in {j \in 1..Len(result.trace.steps) :
                                Has(result.trace.steps[j], "screenshot")}}
             ELSE {})

(* a reference of job jobId, followed through the router and the handler,  *)
(* reads a stored key and is answered with a png stored for that job       *)
RefServed(jobId, ref) ==
    LET p == screenshotRoute(ref)
    IN /\ p.matched
       /\ p.jobId = jobId
       /\ fetchScreenshotKey(p.jobId, p.screenshotId) \in DOMAIN artifactsKV
       /\ fetchScreenshotResponse(p.jobId, p.screenshotId).code = 200
       /\ fetchScreenshotResponse(p.jobId, p.screenshotId).body
              = [kind |-> "png", of |-> jobId]

(* C11: every screenshot reference in a result the Runner returned, and in *)
(* the result of every stored record, is a retrieval path whose job id and *)
(* screenshot id make Fetch-screenshot read a key under which an image of  *)
(* that job was stored: fetching the reference answers 200 with the image, *)
(* never 404.                                                              *)
C11_ReferencesAreServed ==
    /\ \A n \in Slots :
          Returned(n) =>
              \A ref \in ScreenshotRefs(run[n].result) : RefServed(JobId(n), ref)
    /\ \A k \in DOMAIN jobsKV :
          Has(jobsKV[k], "result") =>
              \A ref \in ScreenshotRefs(jobsKV[k].result) :
                  RefServed(jobsKV[k].id, ref)

(* C11: a completed record lists a screenshot in its statistics, a failed  *)
(* record carries one in its error and one in its failed step, and each of *)
(* the references is served                                                *)
C11_Witness ==
    /\ \E k \in DOMAIN jobsKV :
          /\ jobsKV[k].status = "completed"
          /\ Len(jobsKV[k].result.statistics.screenshots) >= 1
          /\ RefServed(jobsKV[k].id, jobsKV[k].result.statistics.screenshots[1])
    /\ \E k \in DOMAIN jobsKV :
          /\ jobsKV[k].status = "failed"
          /\ Has(jobsKV[k].result.error, "screenshot")
          /\ RefServed(jobsKV[k].id, jobsKV[k].result.error.screenshot)
          /\ \E j \in 1..Len(jobsKV[k].result.trace.steps) :
                /\ Has(jobsKV[k].result.trace.steps[j], "screenshot")
                /\ RefServed(jobsKV[k].id, jobsKV[k].result.trace.steps[j].screenshot)

(* the job id of the retrieval path a trace-viewer URL points at: what     *)
(* lies between the last "/api/v1/jobs/" and the closing "/trace"          *)
traceRouteId(url) ==
    LET prefix == "/api/v1/jobs/"
        suffix == "/trace"
        starts == {i \in 1..Len(url) : startsWith(SubSeq(url, i, Len(url)), prefix)}
    IN IF starts = {} THEN ""
       ELSE LET i == CHOOSE c \in starts : \A d \in starts : c >= d
                rest == SubSeq(url, i + Len(prefix), Len(url))
            IN IF Len(rest) > Len(suffix)
                  /\ SubSeq(rest, Len(rest) - Len(suffix) + 1, Len(rest)) = suffix
               THEN SubSeq(rest, 1, Len(rest) - Len(suffix))
               ELSE ""

(* every action of job n has been dispatched and has succeeded *)
AllActionsSucceeded(n) ==
    /\ run[n].failedAt = 0
    /\ run[n].dispatched = [k \in 1..Len(Actions(n)) |-> k]
    /\ Len(run[n].steps) = Len(Actions(n))
    /\ \A k \in 1..Len(run[n].steps) : run[n].steps[k].success

(* C12: for a job submitted with generateTrace=true, a success result of   *)
(* the Runner and a completed record carry a trace-viewer URL in           *)
(* result.trace that points at the job's own trace path, and the bundle is *)
(* under the job's trace key from before the Runner returns, hence before  *)
(* the terminal record is written, so Fetch-trace answers 200 with a zip;  *)
(* an action is dispatched only while the capture is running, and the      *)
(* capture is stopped only after every action has succeeded.               *)
C12_TraceStoredBeforeCompleted ==
    /\ [](\A n \in Slots :
            (Acked(n) /\ generateTrace(Config(n))) =>
                /\ (Returned(n) /\ run[n].result.status = "success") =>
                      /\ Has(run[n].result.trace, "traceViewerUrl")
                      /\ traceRouteId(run[n].result.trace.traceViewerUrl) = JobId(n)
                      /\ traceKey(JobId(n)) \in DOMAIN artifactsKV
                /\ getJob(JobId(n)).status = "completed" =>
                      /\ Has(getJob(JobId(n)).result.trace, "traceViewerUrl")
                      /\ fetchTraceResponse(
                            traceRouteId(getJob(JobId(n)).result.trace.traceViewerUrl)).code
                                = 200
                      /\ fetchTraceResponse(JobId(n)).body.kind = "zip"
                /\ pc[n] \in {"action", "actionCatch"} => run[n].tracing)
    /\ [][\A n \in Slots :
            (Acked(n) /\ generateTrace(Config(n))) =>
                /\ run'[n].dispatched # run[n].dispatched => run[n].tracing
                /\ (run[n].tracing /\ ~run'[n].tracing) => AllActionsSucceeded(n)]_vars

(* C12: a traced job of two actions is stored as completed, its result     *)
(* carries the URL of its trace and Fetch-trace on its id answers 200      *)
C12_Witness ==
    \E n \in Slots :
        /\ Acked(n) /\ generateTrace(Config(n))
        /\ Len(Actions(n)) = 2 /\ AllActionsSucceeded(n)
        /\ getJob(JobId(n)).status = "completed"
        /\ traceRouteId(getJob(JobId(n)).result.trace.traceViewerUrl) = JobId(n)
        /\ fetchTraceResponse(JobId(n)).code = 200

(* C13: once the stored record of a job has status completed or failed, no *)
(* step changes the record: its status stays, completed never becomes      *)
(* failed nor failed completed, no further status is written under the id, *)
(* and Get on the id keeps answering with the identical record.            *)
C13_TerminalIsFinal ==
    [][\A n \in Slots :
          getJob(randomUUID(n)).status \in Terminal =>
              /\ getJob(randomUUID(n))' = getJob(randomUUID(n))
              /\ getResponse(randomUUID(n))' = getResponse(randomUUID(n))
              /\ writes'[n] = writes[n]]_vars

(* C13: one job is stored completed and the other failed, the second       *)
(* having finished while the first was already terminal                    *)
C13_Witness ==
    \E n, m \in Slots :
        /\ pc[n] = "done" /\ pc[m] = "done"
        /\ getJob(randomUUID(n)).status = "completed"
        /\ getJob(randomUUID(m)).status = "failed"
        /\ run[m].ticks > 0
        /\ getResponse(randomUUID(n)).code = 200

(* job n's Submit handler stores its pending record in this step *)
SubmitWrites(n) == pc[n] = "unused" /\ pc'[n] = "putRunning"
(* job n's background task returns from one of its three stores in this step *)
TaskWrites(n) ==
    /\ pc[n] \in {"putRunning", "putTerminal", "catch"}
    /\ pc'[n] \in {"launch", "done"}

(* C14: the Runner of a job is entered at most once, from the task that    *)
(* has just stored the running record; every step that changes or creates  *)
(* a record of the Job Store is the Submit handler of one job storing its  *)
(* new record or the background task of one job storing over the record it *)
(* wrote before, under that job's own id, while no other job's handler or  *)
(* task moves; and no step of any operation removes a record.              *)
C14_SingleWriter ==
    /\ [](\A n \in Slots :
            Cardinality({k \in 1..Len(writes[n]) : writes[n][k] = "running"}) <= 1)
    /\ [][/\ \A n \in Slots :
               (pc'[n] = "launch" /\ pc[n] # "launch") =>
                   /\ pc[n] = "putRunning"
                   /\ run[n] = NewRun
                   /\ writes'[n] = <<"pending", "running">>
          /\ DOMAIN jobsKV \subseteq DOMAIN jobsKV'
          /\ \A k \in DOMAIN jobsKV' :
               (k \notin DOMAIN jobsKV \/ jobsKV'[k] # jobsKV[k]) =>
                   \E n \in Slots :
                       /\ k = jobKey(job'[n].id)
                       /\ jobsKV'[k].id = job'[n].id
                       /\ \/ SubmitWrites(n) /\ k \notin DOMAIN jobsKV
                          \/ /\ TaskWrites(n)
                             /\ k \in DOMAIN jobsKV
                             /\ writes[n] # <<>>
                       /\ \A m \in Slots \ {n} :
                             pc'[m] = pc[m] /\ writes'[m] = writes[m]]_vars

(* C14: two jobs have each had their three records written, under two keys *)
C14_Witness ==
    /\ \A n \in Slots : Len(writes[n]) = 3 /\ run[n] # NewRun
    /\ Cardinality(DOMAIN jobsKV) = MaxJobs
    /\ \E n \in Slots : getJob(randomUUID(n)).status = "completed"

(* C15: Get on an id with no stored record, Fetch-trace on an id with no   *)
(* stored trace and Fetch-screenshot on a job id and file name with no     *)
(* stored image each answer 404, not 500 and not 200; and whatever they    *)
(* answer, none of the three handlers can take a step that changes the Job *)
(* Store or the Artifact Store.                                            *)
C15_MissingIs404ReadOnly ==
    \A jobId \in RequestIds :
        /\ getJob(jobId) = NoJob => getResponse(jobId).code = 404
        /\ traceKey(jobId) \notin DOMAIN artifactsKV =>
              fetchTraceResponse(jobId).code = 404
        /\ ENABLED Get(jobId)
        /\ ENABLED FetchTrace(jobId)
        /\ ~ENABLED (Get(jobId) /\ <<jobsKV, artifactsKV>>' # <<jobsKV, artifactsKV>>)
        /\ ~ENABLED (FetchTrace(jobId)
                        /\ <<jobsKV, artifactsKV>>' # <<jobsKV, artifactsKV>>)
        /\ \A screenshotId \in RequestShots :
              /\ fetchScreenshotKey(jobId, screenshotId) \notin DOMAIN artifactsKV =>
                    fetchScreenshotResponse(jobId, screenshotId).code = 404
              /\ ENABLED FetchScreenshot(jobId, screenshotId)
              /\ ~ENABLED (FetchScreenshot(jobId, screenshotId)
                              /\ <<jobsKV, artifactsKV>>' # <<jobsKV, artifactsKV>>)

(* C15: with a job, its trace and a screenshot stored, an id that no job   *)
(* has, a job without a trace and the screenshot's name without its        *)
(* extension are each answered 404                                         *)
C15_Witness ==
    \E n, m \in Slots :
        /\ Acked(n) /\ Acked(m)
        /\ getResponse("job_87ed99b7").code = 404
        /\ fetchTraceResponse(JobId(n)).code = 200
        /\ fetchTraceResponse(JobId(m)).code = 404
        /\ fetchScreenshotResponse(JobId(n), randomShotUUID(1) \o ".png").code = 200
        /\ fetchScreenshotResponse(JobId(n), randomShotUUID(1)).code = 404

(* the action and the call of the k-th dispatch of job n *)
DispatchedAction(n, k) == Actions(n)[run[n].dispatched[k]]

(* C16, as claimed: every wait action dispatched has paused for exactly    *)
(* its timeout when it has one, whatever schema-valid value that is, 0     *)
(* included, and for 1000 milliseconds only when it has none.              *)
C16_WaitPausesForTimeout ==
    \A n \in Slots :
        Acked(n) =>
            \A k \in 1..Len(run[n].calls) :
                DispatchedAction(n, k).type = "wait" =>
                    /\ run[n].calls[k].op = "waitForTimeout"
                    /\ Has(DispatchedAction(n, k), "timeout") =>
                          run[n].calls[k].ms = DispatchedAction(n, k).timeout
                    /\ ~Has(DispatchedAction(n, k), "timeout") =>
                          run[n].calls[k].ms = 1000

(* the locator of the first field that is present, in the order label      *)
(* text, visible text, accessible name, raw selector                       *)
FirstPresent(action) ==
    IF Has(action, "getByLabel") THEN "getByLabel"
    ELSE IF Has(action, "getByText") THEN "getByText"
    ELSE IF Has(action, "getByName") THEN "getByRole"
    ELSE IF Has(action, "selector") THEN "locator"
    ELSE "null"

(* the same, a field holding the empty string counting as absent; an       *)
(* object-form getByText counts as present whatever its text               *)
FirstNonEmpty(action) ==
    IF Has(action, "getByLabel") /\ action.getByLabel # "" THEN "getByLabel"
    ELSE IF Has(action, "getByText")
            /\ (Has(action.getByText, "text") \/ action.getByText.string # "")
        THEN "getByText"
    ELSE IF Has(action, "getByName") /\ action.getByName # "" THEN "getByRole"
    ELSE IF Has(action, "selector") /\ action.selector # "" THEN "locator"
    ELSE "null"

(* what C17 says of the k-th dispatch of job n, `first` being the locator  *)
(* the resolution is to pick for its action                                *)
ResolvedAs(n, k, first) ==
    LET a == DispatchedAction(n, k)
        c == run[n].calls[k]
        both == Has(a, "x") /\ Has(a, "y")
    IN /\ a.type \in {"click", "scroll"} =>
            /\ first # "null" =>
                  /\ c.op = (IF a.type = "click" THEN "first.click"
                             ELSE "first.scrollIntoViewIfNeeded")
                  /\ c.on = first
            /\ (first = "null" /\ both) =>
                  /\ c.op = (IF a.type = "click" THEN "mouse.click"
                             ELSE "mouse.wheel")
                  /\ c.x = a.x /\ c.y = a.y
            /\ (first = "null" /\ ~both) =>
                  /\ c = NoCall
                  /\ run[n].failedAt = 0
                  /\ Len(run[n].steps) >= k /\ run[n].steps[k].success
       /\ (a.type \in {"fill", "expect"} /\ Has(c, "on")) => c.on = first

(* C17, as claimed: for every combination of present and absent locator    *)
(* fields, a dispatched click or scroll acts on the locator of the first   *)
(* field that is set, in the order label, text, name, selector; it uses    *)
(* its coordinates only when none of the four is set and both coordinates  *)
(* are given, and otherwise is a no-op whose step succeeds.                *)
C17_FirstSetFieldWins ==
    \A n \in Slots :
        Acked(n) =>
            \A k \in 1..Len(run[n].calls) :
                ResolvedAs(n, k, FirstPresent(DispatchedAction(n, k)))

(* C17, amended: the same with "set" read as holding a non-empty value: a  *)
(* locator field that holds the empty string is passed over like an absent *)
(* one, while getByText given as an object counts as set whatever its      *)
(* text.                                                                   *)
C17_FirstNonEmptyFieldWins ==
    \A n \in Slots :
        Acked(n) =>
            \A k \in 1..Len(run[n].calls) :
                ResolvedAs(n, k, FirstNonEmpty(DispatchedAction(n, k)))

(* C17: a click with an empty label, an object-form text, a selector and   *)
(* both coordinates has clicked the first match of the text locator, and   *)
(* its job is stored as completed                                          *)
C17_Witness ==
    \E n \in Slots :
        /\ Acked(n) /\ Len(run[n].calls) = 1
        /\ Actions(n)[1].type = "click"
        /\ Has(Actions(n)[1], "getByLabel") /\ Actions(n)[1].getByLabel = ""
        /\ Has(Actions(n)[1], "getByText") /\ Has(Actions(n)[1].getByText, "text")
        /\ Has(Actions(n)[1], "selector") /\ Actions(n)[1].selector = "#submit"
        /\ Has(Actions(n)[1], "x") /\ Has(Actions(n)[1], "y")
        /\ run[n].calls[1] = [op |-> "first.click", on |-> "getByText"]
        /\ getJob(JobId(n)).status = "completed"

(* C18, as claimed: when an action has thrown E and the Runner returns,    *)
(* the result has status fail with E's message as error.message, and the   *)
(* last step of its trace is the failed step of that action, carrying E's  *)
(* message, whether the diagnostic capture succeeded, failed, or succeeded *)
(* with the store of the image failing.                                    *)
C18_ActionErrorReported ==
    \A n \in Slots :
        (Returned(n) /\ run[n].failedAt # 0) =>
            LET steps == run[n].result.trace.steps
            IN /\ run[n].result.status = "fail"
               /\ run[n].result.error.message = run[n].thrown.message
               /\ Len(steps) = run[n].failedAt
               /\ ~steps[Len(steps)].success
               /\ steps[Len(steps)].error = run[n].thrown.message

(* C19, as claimed: a close of the browser that throws never changes the   *)
(* outcome: a Runner whose actions all succeeded, with no trace to store,  *)
(* returns a success result, and the record its task then writes is        *)
(* completed; and no failure result reports the error of the close.        *)
C19_CloseFailureIgnored ==
    \A n \in Slots :
        (Acked(n) /\ Returned(n)) =>
            /\ (AllActionsSucceeded(n) /\ ~generateTrace(Config(n))) =>
                  /\ run[n].result.status = "success"
                  /\ (pc[n] = "done" /\ caught[n] = NoError) =>
                        getJob(JobId(n)).status = "completed"
            /\ run[n].result.status = "fail" =>
                  run[n].result.error.message # CloseError.message

(* C20: an exception is caught by the task exactly when its write of the   *)
(* running record or of the terminal record throws, and the task then goes *)
(* to its catch block; once the write of the catch block has returned, the *)
(* stored record has status failed, a completedAt, and a result with       *)
(* status fail, duration 0, the message of the caught error, no statistics *)
(* and no trace, whatever the Runner had returned; and the task ends       *)
(* rejected only by that last write throwing.                              *)
C20_TaskCatchWritesFailed ==
    /\ [](\A n \in Slots :
            (Acked(n) /\ caught[n] # NoError) =>
                /\ pc[n] \in {"catch", "done", "rejected"}
                /\ pc[n] = "done" =>
                      LET rec == getJob(JobId(n))
                      IN /\ rec.status = "failed"
                         /\ Has(rec, "completedAt")
                         /\ rec.result.status = "fail"
                         /\ rec.result.duration = 0
                         /\ rec.result.error.message = caught[n].message
                         /\ rec.result.error.message # ""
                         /\ ~Has(rec.result, "statistics")
                         /\ ~Has(rec.result, "trace"))
    /\ [][\A n \in Slots :
            /\ caught'[n] # caught[n] =>
                  /\ pc[n] \in {"putRunning", "putTerminal"}
                  /\ pc'[n] = "catch"
                  /\ faults' = faults + 1
            /\ (pc[n] = "catch" /\ pc'[n] # "catch") =>
                  \/ pc'[n] = "done" /\ faults' = faults
                  \/ pc'[n] = "rejected" /\ faults' = faults + 1
            /\ (pc'[n] = "rejected" /\ pc[n] # "rejected") => pc[n] = "catch"]_vars

(* C20: the Runner returned a success result, the write of the completed   *)
(* record threw, and the catch block has stored the job as failed with     *)
(* duration 0                                                              *)
C20_Witness ==
    \E n \in Slots :
        /\ Acked(n) /\ pc[n] = "done" /\ caught[n] = KVError
        /\ Returned(n) /\ run[n].result.status = "success"
        /\ getJob(JobId(n)).status = "failed"
        /\ getJob(JobId(n)).result.duration = 0
        /\ ~Has(getJob(JobId(n)).result, "statistics")

(* C21: in every stored record with status completed or failed, the status *)
(* is completed exactly when result.status is success and failed exactly   *)
(* when it is fail; a failed record carries an error with a message and no *)
(* statistics, and a completed record carries statistics and no error.     *)
C21_StatusMatchesResult ==
    \A k \in DOMAIN jobsKV :
        jobsKV[k].status \in Terminal =>
            LET rec == jobsKV[k]
            IN /\ rec.result.status \in {"success", "fail"}
               /\ rec.status = "completed" <=> rec.result.status = "success"
               /\ rec.status = "failed" <=> rec.result.status = "fail"
               /\ rec.status = "failed" =>
                     /\ Has(rec.result, "error")
                     /\ Has(rec.result.error, "message")
                     /\ rec.result.error.message # ""
                     /\ ~Has(rec.result, "statistics")
               /\ rec.status = "completed" =>
                     /\ Has(rec.result, "statistics")
                     /\ ~Has(rec.result, "error")

(* C21: the store holds a completed record with its statistics, and a      *)
(* failed record made from a fail result of the Runner, with its error,    *)
(* its trace and no statistics                                             *)
C21_Witness ==
    /\ \E k \in DOMAIN jobsKV :
          /\ jobsKV[k].status = "completed"
          /\ jobsKV[k].result.status = "success"
          /\ Has(jobsKV[k].result, "statistics")
    /\ \E k \in DOMAIN jobsKV :
          /\ jobsKV[k].status = "failed"
          /\ jobsKV[k].result.status = "fail"
          /\ Has(jobsKV[k].result, "trace")
          /\ Has(jobsKV[k].result.error, "message")
          /\ ~Has(jobsKV[k].result, "statistics")

(* the positions of a task inside executePlaywrightSequence *)
RunnerPcs ==
    {"launch", "newPage", "traceStart", "action", "actionCatch", "traceStop",
     "close", "storeTrace", "catchShot", "catchClose"}

(* C22: whichever calls of the Runner throw, launch, page creation, trace  *)
(* start, an action, a screenshot capture, an artifact write, trace stop,  *)
(* trace persistence or close, the Runner can always take its next step,   *)
(* every step that leaves it is a return to the task with a JobResult of   *)
(* status success or fail, never an exception into the task's catch, and   *)
(* a task past its Runner holds such a result.                             *)
C22_RunnerAlwaysReturns ==
    /\ [](\A n \in Slots :
            /\ pc[n] \in RunnerPcs => ENABLED JobStep(n) /\ ~Returned(n)
            /\ (pc[n] \notin RunnerPcs /\ run[n] # NewRun) =>
                  run[n].result.status \in {"success", "fail"}
            /\ run[n] = NewRun => pc[n] \notin RunnerPcs \ {"launch"})
    /\ [][\A n \in Slots :
            (pc[n] \in RunnerPcs /\ pc'[n] \notin RunnerPcs) =>
                /\ pc'[n] = "putTerminal"
                /\ caught'[n] = NoError
                /\ run'[n].result.status \in {"success", "fail"}]_vars

(* C22: a Runner has returned fail after its second action threw and the   *)
(* close of the outer catch threw as well, the task now at its store       *)
C22_Witness ==
    \E n \in Slots :
        /\ pc[n] = "putTerminal" /\ Returned(n)
        /\ run[n].failedAt = 2
        /\ run[n].closeAttempts = 1 /\ ~run[n].closed
        /\ run[n].result.status = "fail"
        /\ caught[n] = NoError

(* C23, as claimed: the bundle stored under a job's trace key, which is    *)
(* what Fetch-trace serves for the job, is the trace written by that job's *)
(* own session, however the Runners of two traced jobs interleave.         *)
C23_OwnTraceStored ==
    \A n \in Slots :
        (Acked(n) /\ traceKey(JobId(n)) \in DOMAIN artifactsKV) =>
            /\ artifactsKV[traceKey(JobId(n))].of = JobId(n)
            /\ fetchTraceResponse(JobId(n)).body.of = JobId(n)

(* the images stored under the id of a job *)
StoredShots(jobId) ==
    {k \in DOMAIN artifactsKV :
        artifactsKV[k].kind = "png" /\ artifactsKV[k].of = jobId}

(* the keys Fetch-screenshot reads for the references of a result *)
ReferencedShots(result) ==
    {fetchScreenshotKey(screenshotRoute(ref).jobId, screenshotRoute(ref).screenshotId) :
        ref \in ScreenshotRefs(result)}

(* C24, as claimed: once the terminal record of a job is stored, every     *)
(* image stored under the job's id is referenced from the record's result, *)
(* in statistics.screenshots, in error.screenshot or in a trace step, for  *)
(* completed and for failed jobs alike.                                    *)
C24_EveryShotReferenced ==
    \A n \in Slots :
        (Acked(n) /\ getJob(JobId(n)).status \in Terminal) =>
            StoredShots(JobId(n)) \subseteq ReferencedShots(getJob(JobId(n)).result)
====
